---- MODULE Spec2Model ----
(***************************************************************************)
(* Model of the mcp-code-reviewer checklist pipeline:                      *)
(*   validators/base_validator.py, pattern_validator.py, file_validator.py *)
(*   reporters/progress_tracker.py, checklist_engine.py, main.py,          *)
(*   technology_detector.py                                                *)
(*                                                                         *)
(* Specifications.  Spec: review_code called any number of times on one    *)
(* engine.  SpecValidators: one review over generated trees and checks.    *)
(* SpecTool: the tools review_code and get_review_status with their        *)
(* registry.  SpecTracker: the methods of one ProgressTracker in any       *)
(* order.  SpecDetect: detection over generated project directories.       *)
(*                                                                         *)
(* Conventions.  A Python dict is a TLA+ function whose DOMAIN is the set  *)
(* of keys that are present, so `'patterns' in check` is                   *)
(* "patterns" \in DOMAIN check.  Optional values (None or a value) are     *)
(* sequences of length 0 or 1.  A path is the sequence of its parts        *)
(* (pathlib's Path.parts).  A file's text is a sequence of characters, a   *)
(* regular expression is a literal (a sequence of characters, every one of *)
(* them an ordinary character), so every pattern of the model compiles.    *)
(* A formatted message is the record of the pieces the f-string joins.     *)
(***************************************************************************)
EXTENDS Integers, Sequences, FiniteSets, TLC

VARIABLES
    project_path,     \* ChecklistEngine.project_path: parts of the project root
    tree,             \* the project directory: entries in directory-walk order
    checklist_dir,    \* technology -> optional checklist (the .yaml files)
    current_checklist,\* ChecklistEngine.current_checklist (optional)
    tracker,          \* ChecklistEngine.progress_tracker (a ProgressTracker)
    pc,               \* position inside ChecklistEngine.review_code
    technology,       \* review_code's argument
    has_callback,     \* whether progress_callback was supplied
    ci,               \* index of the category being iterated
    ii,               \* index of the item being iterated
    results,          \* results of the last _execute_check
    all_results,      \* review_code's all_results
    progress_updates, \* the snapshots handed to progress_callback, in order
    events,           \* the calls review_code has made so far, in order
    scanned,          \* the files the last pattern validation went through
    outcome,          \* what the last review_code call returned or raised
    caller,           \* who called review_code: "engine" (its API) or "tool"
    active_reviews,   \* main.py: active_reviews, review id -> stored result
    reply,            \* what the last tool or API call returned (nothing
                      \* while review_code, the tool, is running)
    history           \* (path, technology) -> result of its last successful
                      \* review through the tool; written only, for properties

vars == <<project_path, tree, checklist_dir, current_checklist, tracker, pc,
          technology, has_callback, ci, ii, results, all_results,
          progress_updates, events, scanned, outcome, caller, active_reviews,
          reply, history>>

\* the state of main.py
toolvars == <<active_reviews, reply, history>>

(***************************************************************************)
(* Bounds of the model.                                                    *)
(***************************************************************************)
MaxChecks == 3        \* checks of a generated checklist, all categories together
MaxCategories == 2    \* categories of a generated checklist
MaxContentLen == 3    \* characters of a generated file text
MaxPatterns == 2      \* patterns of a generated pattern check
MaxRecords == 3       \* record_* calls on a Progress Model between two starts

None == << >>
Some(x) == <<x>>

(***************************************************************************)
(* Generic helpers.                                                        *)
(***************************************************************************)
IsPrefix(p, q) == Len(p) <= Len(q) /\ SubSeq(q, 1, Len(p)) = p

Range(s) == {s[i] : i \in 1..Len(s)}

RECURSIVE Concat(_)
Concat(ss) == IF ss = << >> THEN << >> ELSE Head(ss) \o Concat(Tail(ss))

SeqsUpTo(S, n) == UNION {[1..k -> S] : k \in 0..n}

\* dict.get(key, default)
Get(d, key, default) == IF key \in DOMAIN d THEN d[key] ELSE default

(***************************************************************************)
(* Text: str.split('\n'), and re.search of a literal under re.IGNORECASE.  *)
(***************************************************************************)
NL == "\n"

Lower(c) == CASE c = "T" -> "t"
              [] c = "X" -> "x"
              [] OTHER -> c

\* content.split('\n'): always at least one line
RECURSIVE SplitFrom(_, _)
SplitFrom(content, cur) ==
    IF content = << >> THEN <<cur>>
    ELSE IF Head(content) = NL
         THEN <<cur>> \o SplitFrom(Tail(content), << >>)
         ELSE SplitFrom(Tail(content), Append(cur, Head(content)))

Split(content) == SplitFrom(content, << >>)

\* Mutant of Search: the match is case-sensitive (re.IGNORECASE dropped).
SearchCaseSensitive(pattern, line) ==
    \E i \in 0..(Len(line) - Len(pattern)) :
        \A j \in 1..Len(pattern) : line[i + j] = pattern[j]

\* re.compile(pattern, re.IGNORECASE | re.MULTILINE).search(line)
Search(pattern, line) ==
    \E i \in 0..(Len(line) - Len(pattern)) :
        \A j \in 1..Len(pattern) : Lower(line[i + j]) = Lower(pattern[j])

(***************************************************************************)
(* The file system under (and around) the project root.                    *)
(***************************************************************************)
\* The suffix a glob "*<ext>" compares with the end of a name.
Suffix(name) ==
    CASE name \in {"a.py", "b.py", "pkg.py"} -> ".py"
      [] name \in {"m.go"} -> ".go"
      [] name \in {"app.js"} -> ".js"
      [] name \in {"ui.jsx"} -> ".jsx"
      [] name \in {"README.md"} -> ".md"
      [] name \in {"go.mod"} -> ".mod"
      [] name \in {"go.sum"} -> ".sum"
      [] name \in {"requirements.txt"} -> ".txt"
      [] name \in {"package.json"} -> ".json"
      [] OTHER -> ""

AbsPath(entry) == project_path \o entry.path

\* Path.exists() of an absolute path: a file of the tree or a directory above one
Exists(abs) == \E k \in 1..Len(tree) : IsPrefix(abs, AbsPath(tree[k]))

\* the tree entry behind an absolute path that rglob yielded
EntryOf(abs) == CHOOSE e \in Range(tree) : AbsPath(e) = abs

\* self.project_path.rglob(f"*{ext}"): the absolute paths, in walk order
Rglob(ext) ==
    LET hit == SelectSeq(tree, LAMBDA e : Suffix(e.path[Len(e.path)]) = ext)
    IN  [k \in 1..Len(hit) |-> AbsPath(hit[k])]

\* file_path.relative_to(self.project_path)
RelativeTo(abs) == SubSeq(abs, Len(project_path) + 1, Len(abs))

(***************************************************************************)
(* validators/base_validator.py                                            *)
(***************************************************************************)
\* ValidationResult.__init__
ValidationResult(check_id, passed, message, file_path, line_number, severity) ==
    [check_id |-> check_id, passed |-> passed, message |-> message,
     file_path |-> file_path, line_number |-> line_number,
     severity |-> severity]

\* the pieces of a formatted message: fixed text, embedded text, joined names
Msg(text, embedded, names) ==
    [text |-> text, embedded |-> embedded, names |-> names]

NoPath == << >>      \* file_path = "" (the constructor's default)
DefaultSeverity == "info"

skip_dirs == {"node_modules", "venv", ".venv", "__pycache__",
              "dist", "build", ".git", "coverage"}

\* BaseValidator.get_files_to_check: f.parts are the parts of the whole path
\* that rglob yielded, the parts of project_path included
get_files_to_check(extensions) ==
    LET files == Concat([k \in 1..Len(extensions) |-> Rglob(extensions[k])])
    IN  SelectSeq(files,
                  LAMBDA f : ~ \E skip_dir \in skip_dirs : skip_dir \in Range(f))

(***************************************************************************)
(* validators/pattern_validator.py                                         *)
(***************************************************************************)
_get_extensions(tech) ==
    CASE tech = "python" -> <<".py">>
      [] tech = "javascript" -> <<".js", ".jsx">>
      [] tech = "typescript" -> <<".ts", ".tsx">>
      [] tech = "java" -> <<".java">>
      [] tech = "go" -> <<".go">>
      [] tech = "rust" -> <<".rs">>
      [] OTHER -> <<".py">>

\* the inner loop: one failing result per line the pattern is found on
LineMatches(check, abs, pattern, lines) ==
    LET nums == SelectSeq([i \in 1..Len(lines) |-> i],
                          LAMBDA i : Search(pattern, lines[i]))
    IN  [k \in 1..Len(nums) |->
            ValidationResult(check["id"], FALSE,
                             Msg("Pattern match", check["description"], << >>),
                             RelativeTo(abs), nums[k],
                             Get(check, "severity", DefaultSeverity))]

\* Mutant of ScanFile: the error result takes the severity the check declares.
ScanFile_declared_severity(check, patterns, abs) ==
    LET e == EntryOf(abs)
    IN  IF ~ e.readable
        THEN << ValidationResult(check["id"], FALSE,
                                 Msg("Error reading file", "OSError", << >>),
                                 RelativeTo(abs), 0,
                                 Get(check, "severity", DefaultSeverity)) >>
        ELSE LET lines == Split(e.content)
             IN  Concat([p \in 1..Len(patterns) |->
                            LineMatches(check, abs, patterns[p], lines)])

\* the body of `for file_path in files`: read_text raises for a file that
\* cannot be read, before anything is appended for that file
ScanFile(check, patterns, abs) ==
    LET e == EntryOf(abs)
    IN  IF ~ e.readable
        THEN << ValidationResult(check["id"], FALSE,
                                 Msg("Error reading file", "OSError", << >>),
                                 RelativeTo(abs), 0, "error") >>
        ELSE LET lines == Split(e.content)
             IN  Concat([p \in 1..Len(patterns) |->
                            LineMatches(check, abs, patterns[p], lines)])

\* the files PatternValidator.validate goes through (none when it returns early)
PatternFiles(check) ==
    IF Get(check, "patterns", << >>) = << >> THEN << >>
    ELSE get_files_to_check(_get_extensions(Get(check, "technology", "python")))

\* Mutant of PatternValidator_validate: the closing `if not results` is missing.
PatternValidator_validate_no_clean(check) ==
    LET patterns == Get(check, "patterns", << >>)
    IN  IF patterns = << >>
        THEN << ValidationResult(check["id"], TRUE,
                                 Msg("No patterns defined", "", << >>),
                                 NoPath, 0, DefaultSeverity) >>
        ELSE LET files == PatternFiles(check)
             IN  IF files = << >>
                 THEN << ValidationResult(check["id"], TRUE,
                                          Msg("No files found to check", "", << >>),
                                          NoPath, 0, DefaultSeverity) >>
                 ELSE Concat([k \in 1..Len(files) |->
                                 ScanFile(check, patterns, files[k])])

\* PatternValidator.validate
PatternValidator_validate(check) ==
    LET patterns == Get(check, "patterns", << >>)
    IN  IF patterns = << >>
        THEN << ValidationResult(check["id"], TRUE,
                                 Msg("No patterns defined", "", << >>),
                                 NoPath, 0, DefaultSeverity) >>
        ELSE LET files == PatternFiles(check)
             IN  IF files = << >>
                 THEN << ValidationResult(check["id"], TRUE,
                                          Msg("No files found to check", "", << >>),
                                          NoPath, 0, DefaultSeverity) >>
                 ELSE LET found == Concat([k \in 1..Len(files) |->
                                             ScanFile(check, patterns, files[k])])
                      IN  IF found = << >>
                          THEN << ValidationResult(check["id"], TRUE,
                                                   Msg("", check["description"], << >>),
                                                   NoPath, 0, DefaultSeverity) >>
                          ELSE found

(***************************************************************************)
(* validators/file_validator.py                                            *)
(***************************************************************************)
\* the text of a name, for a glob without wildcards
NameText(name) ==
    CASE name = "t" -> <<"t">>
      [] name = "x" -> <<"x">>
      [] OTHER -> <<name>>

\* FileValidator._check_pattern_files.  validate calls it for a check with
\* 'patterns' and without 'files'; _execute_check sends every check that has
\* 'patterns' to PatternValidator, so the Runner never gets here.
_check_pattern_files(check, patterns) ==
    LET matching(p) ==
            SelectSeq(SelectSeq(tree,
                          LAMBDA e : NameText(e.path[Len(e.path)]) = p),
                      LAMBDA e : ~ \E skip_dir \in skip_dirs :
                                      skip_dir \in Range(AbsPath(e)))
        hits == {k \in 1..Len(patterns) : matching(patterns[k]) # << >>}
    IN  IF hits # {}
        THEN LET first == CHOOSE k \in hits : \A h \in hits : k <= h
             IN  << ValidationResult(check["id"], TRUE,
                        Msg("Found file(s)", check["description"],
                            [k \in 1..Len(matching(patterns[first])) |->
                                matching(patterns[first])[k].path]),
                        NoPath, 0, DefaultSeverity) >>
        ELSE << ValidationResult(check["id"], FALSE,
                    Msg("No files found matching patterns", "", patterns),
                    NoPath, 0, Get(check, "severity", DefaultSeverity)) >>

\* Mutant of FileFound: the name is looked for at any depth, as
\* TechnologyDetector._file_exists and rglob do, not at project_path alone.
FileFoundAnywhere(files_to_check) ==
    \E k \in 1..Len(files_to_check) : \E n \in 1..Len(tree) :
        \E d \in 0..Len(tree[n].path) :
            IsPrefix(files_to_check[k],
                     SubSeq(tree[n].path, d + 1, Len(tree[n].path)))

\* the loop over files_to_check: (self.project_path / filename).exists()
FileFound(files_to_check) ==
    \E k \in 1..Len(files_to_check) : Exists(project_path \o files_to_check[k])

\* FileValidator.validate
FileValidator_validate(check) ==
    LET files_to_check == Get(check, "files", << >>)
    IN  IF files_to_check = << >>
        THEN LET patterns == Get(check, "patterns", << >>)
             IN  IF patterns # << >>
                 THEN _check_pattern_files(check, patterns)
                 ELSE << ValidationResult(check["id"], TRUE,
                                          Msg("No files specified", "", << >>),
                                          NoPath, 0, DefaultSeverity) >>
        ELSE IF FileFound(files_to_check)
             THEN << ValidationResult(check["id"], TRUE,
                                      Msg("", check["description"], << >>),
                                      NoPath, 0, DefaultSeverity) >>
             ELSE << ValidationResult(check["id"], FALSE,
                                      Msg("Missing required files", "",
                                          files_to_check),
                                      NoPath, 0,
                                      Get(check, "severity", DefaultSeverity)) >>

(***************************************************************************)
(* reporters/progress_tracker.py                                           *)
(***************************************************************************)
Now == Some("now")     \* datetime.now(): a timestamp, always truthy

\* ProgressTracker.__init__
ProgressTracker_init ==
    [total_checks |-> 0, passed |-> 0, failed |-> 0, skipped |-> 0,
     in_progress |-> 0, current_check |-> None, failures |-> << >>,
     start_time |-> None, end_time |-> None]

\* Mutant of start: the total is not stored.
start_keeps_total(t, total) ==
    [t EXCEPT !.start_time = Now, !.passed = 0, !.failed = 0,
              !.skipped = 0, !.in_progress = 0, !.failures = << >>]

\* ProgressTracker.start
start(t, total) ==
    [t EXCEPT !.total_checks = total, !.start_time = Now, !.passed = 0,
              !.failed = 0, !.skipped = 0, !.in_progress = 0,
              !.failures = << >>]

\* Mutant of update_check: the in-progress mark is not set.
update_check_unmarked(t, check_id, description) ==
    [t EXCEPT !.current_check = Some([id |-> check_id,
                                      description |-> description])]

\* ProgressTracker.update_check
update_check(t, check_id, description) ==
    [t EXCEPT !.current_check = Some([id |-> check_id,
                                      description |-> description]),
              !.in_progress = 1]

\* ProgressTracker.record_pass
record_pass(t) == [t EXCEPT !.passed = @ + 1, !.in_progress = 0]

\* Mutant of record_fail: the failure record is put first, not last.
record_fail_prepend(t, failure_info) ==
    [t EXCEPT !.failed = @ + 1, !.in_progress = 0,
              !.failures = <<failure_info>> \o @]

\* ProgressTracker.record_fail
record_fail(t, failure_info) ==
    [t EXCEPT !.failed = @ + 1, !.in_progress = 0,
              !.failures = Append(@, failure_info)]

\* Mutant of record_skip: the in-progress mark is left as it is.
record_skip_keeps_mark(t) == [t EXCEPT !.skipped = @ + 1]

\* ProgressTracker.record_skip
record_skip(t) == [t EXCEPT !.skipped = @ + 1, !.in_progress = 0]

\* ProgressTracker.complete
complete(t) == [t EXCEPT !.end_time = Now, !.in_progress = 0]

\* round(completed / total * 100, 1), in tenths of a percent
Percentage(completed, total) ==
    IF total > 0 THEN (2000 * completed + total) \div (2 * total) ELSE 0

\* ProgressTracker.get_progress
get_progress(t) ==
    LET completed == t.passed + t.failed + t.skipped
    IN  [total |-> t.total_checks, completed |-> completed,
         passed |-> t.passed, failed |-> t.failed, skipped |-> t.skipped,
         percentage |-> Percentage(completed, t.total_checks),
         current_check |-> t.current_check,
         in_progress |-> (t.in_progress > 0)]

\* Mutant of get_progress_call: taking a snapshot clears the in-progress mark.
get_progress_call_clears_mark(t) ==
    [self |-> [t EXCEPT !.in_progress = 0], value |-> get_progress(t)]

\* a call of get_progress: the tracker after it (the method assigns to no
\* attribute) and the dict it returns
get_progress_call(t) == [self |-> t, value |-> get_progress(t)]

\* ProgressTracker.get_summary
get_summary(t) ==
    LET progress == get_progress(t)
    IN  [total |-> progress.total, completed |-> progress.completed,
         passed |-> progress.passed, failed |-> progress.failed,
         skipped |-> progress.skipped, percentage |-> progress.percentage,
         current_check |-> progress.current_check,
         in_progress |-> progress.in_progress,
         failures |-> t.failures,
         duration_seconds |-> IF t.start_time # None /\ t.end_time # None
                              THEN Some("elapsed") ELSE None,
         status |-> IF t.end_time # None THEN "completed" ELSE "in_progress"]

(***************************************************************************)
(* checklist_engine.py                                                     *)
(***************************************************************************)
\* sum(len(category['items']) for category in checklist['categories'])
RECURSIVE CountChecks(_)
CountChecks(categories) ==
    IF categories = << >> THEN 0
    ELSE Len(Head(categories)["items"]) + CountChecks(Tail(categories))

\* whether the sum above raises KeyError
LacksItems(categories) ==
    \E c \in 1..Len(categories) : "items" \notin DOMAIN categories[c]

\* the nested for loops: the first category at or after c that has an item
RECURSIVE SeekCategory(_, _)
SeekCategory(categories, c) ==
    IF c > Len(categories) THEN c
    ELSE IF Len(categories[c]["items"]) > 0 THEN c
         ELSE SeekCategory(categories, c + 1)

\* check['technology'] = technology
Tagged(check, tech) ==
    [k \in DOMAIN check \cup {"technology"} |->
        IF k = "technology" THEN tech ELSE check[k]]

\* Mutant of _execute_check: 'files' is looked at before 'patterns'.
_execute_check_files_first(check) ==
    IF "files" \in DOMAIN check
    THEN [validator |-> "FileValidator",
          results |-> FileValidator_validate(check)]
    ELSE IF "patterns" \in DOMAIN check
         THEN [validator |-> "PatternValidator",
               results |-> PatternValidator_validate(check)]
         ELSE [validator |-> "FileValidator",
               results |-> FileValidator_validate(check)]

\* ChecklistEngine._execute_check, on the check already tagged
_execute_check(check) ==
    IF "patterns" \in DOMAIN check
    THEN [validator |-> "PatternValidator",
          results |-> PatternValidator_validate(check)]
    ELSE IF "files" \in DOMAIN check
         THEN [validator |-> "FileValidator",
               results |-> FileValidator_validate(check)]
         ELSE [validator |-> "FileValidator",
               results |-> FileValidator_validate(check)]

\* the failure record review_code builds for one failing result
FailureInfo(check_id, category_name, result) ==
    [check_id |-> check_id, category |-> category_name,
     message |-> result.message, file_path |-> result.file_path,
     line_number |-> result.line_number, severity |-> result.severity]

\* `for result in results: if not result.passed: record_fail({...})`
RECURSIVE RecordFailures(_, _, _, _)
RecordFailures(t, check_id, category_name, rs) ==
    IF rs = << >> THEN t
    ELSE RecordFailures(
             IF ~ Head(rs).passed
             THEN record_fail(t, FailureInfo(check_id, category_name, Head(rs)))
             ELSE t,
             check_id, category_name, Tail(rs))

\* review_code, "Record results": passed = all(r.passed for r in results)
RecordResults(t, check_id, category_name, rs) ==
    IF \A k \in 1..Len(rs) : rs[k].passed
    THEN record_pass(t)
    ELSE RecordFailures(t, check_id, category_name, rs)

Event(ev, id, validator) == [ev |-> ev, id |-> id, validator |-> validator]

NoOutcome == [kind |-> "none", error |-> "", summary |-> None]

Categories == current_checklist[1]["categories"]
CurrentCategory == Categories[ci]
CurrentItem == CurrentCategory["items"][ii]

Raised(error) == [kind |-> "raised", error |-> error, summary |-> None]

\* what a call gave back: the tool or method, the path and technology it was
\* for, the error (if any), the value
Reply(tool, request, error, value) ==
    [tool |-> tool, request |-> request, error |-> error, value |-> value]
NoReply == Reply("", << >>, "", None)

(***************************************************************************)
(* technology_detector.py.  The detector is given the files under its      *)
(* project path (paths relative to it).  A score is kept in tenths of a    *)
(* point, a confidence in hundredths; a list made from a set (the          *)
(* frameworks) is a set.                                                   *)
(***************************************************************************)
\* TECH_INDICATORS, in the order of the dict
TechOrder == <<"python", "javascript", "typescript", "java", "go", "rust">>

IndicatorFiles(tech) ==
    CASE tech = "python" -> <<"requirements.txt", "setup.py", "pyproject.toml",
                              "Pipfile">>
      [] tech = "javascript" -> <<"package.json", "package-lock.json", "yarn.lock">>
      [] tech = "typescript" -> <<"tsconfig.json">>
      [] tech = "java" -> <<"pom.xml", "build.gradle", "gradlew">>
      [] tech = "go" -> <<"go.mod", "go.sum">>
      [] tech = "rust" -> <<"Cargo.toml", "Cargo.lock">>

IndicatorExtensions(tech) ==
    CASE tech = "python" -> <<".py">>
      [] tech = "javascript" -> <<".js", ".jsx">>
      [] tech = "typescript" -> <<".ts", ".tsx">>
      [] tech = "java" -> <<".java">>
      [] tech = "go" -> <<".go">>
      [] tech = "rust" -> <<".rs">>

\* framework -> keywords
IndicatorFrameworks(tech) ==
    CASE tech = "python" ->
            [django |-> {"manage.py", "settings.py", "wsgi.py"},
             flask |-> {"app.py", "flask"},
             fastapi |-> {"fastapi", "uvicorn"}]
      [] tech = "javascript" ->
            [react |-> {"react", "jsx"}, vue |-> {"vue", ".vue"},
             node |-> {"express", "node"}]
      [] tech = "typescript" ->
            [react |-> {"react"}, angular |-> {"angular"}, nest |-> {"nestjs"}]
      [] tech = "java" ->
            [spring |-> {"spring-boot", "SpringApplication"},
             maven |-> {"pom.xml"}, gradle |-> {"build.gradle"}]
      [] OTHER -> << >>

\* the characters of a keyword
KeywordText(kw) ==
    CASE kw = "flask" -> <<"f", "l", "a", "s", "k">>
      [] kw = "vue" -> <<"v", "u", "e">>
      [] OTHER -> <<kw>>

\* `kw in content`
Contains(kw, content) ==
    \E i \in 0..(Len(content) - Len(kw)) :
        \A j \in 1..Len(kw) : content[i + j] = kw[j]

\* (self.project_path / ...).exists()
ExistsUnder(files, rel) == \E k \in 1..Len(files) : IsPrefix(rel, files[k].path)

\* Mutant of _file_exists: the project root itself is not looked at.
_file_exists_subdirs_only(files, filename) ==
    \E subdir \in {"src", "app", "config"} : ExistsUnder(files, <<subdir, filename>>)

\* TechnologyDetector._file_exists
_file_exists(files, filename) ==
    \/ ExistsUnder(files, <<filename>>)
    \/ \E subdir \in {"src", "app", "config"} :
           ExistsUnder(files, <<subdir, filename>>)

\* TechnologyDetector._count_extensions
_count_extensions(files, extensions) ==
    Cardinality({h \in (1..Len(extensions)) \X (1..Len(files)) :
                    Suffix(files[h[2]].path[Len(files[h[2]].path)])
                        = extensions[h[1]]})

\* TechnologyDetector._detect_frameworks: read_text raises for a directory
\* and for a file that cannot be read, and the exception is swallowed
_detect_frameworks(files, tech, config_file) ==
    LET at == {k \in 1..Len(files) : files[k].path = <<config_file>>}
    IN  IF at = {} THEN {}
        ELSE LET e == files[CHOOSE k \in at : TRUE]
             IN  IF ~ e.readable THEN {}
                 ELSE {fw \in DOMAIN IndicatorFrameworks(tech) :
                          \E kw \in IndicatorFrameworks(tech)[fw] :
                              Contains(KeywordText(kw), e.content)}

\* the body of `for tech, indicators in self.TECH_INDICATORS.items()`
Scored(files, tech) ==
    LET found == {f \in 1..Len(IndicatorFiles(tech)) :
                     _file_exists(files, IndicatorFiles(tech)[f])}
        ext_count == _count_extensions(files, IndicatorExtensions(tech))
    IN  [technology |-> tech,
         score |-> 20 * Cardinality(found)
                   + (IF ext_count > 0
                      THEN (IF ext_count < 30 THEN ext_count ELSE 30)
                      ELSE 0),
         frameworks |->
             IF tech \in {"python", "javascript", "typescript", "java"}
             THEN UNION {_detect_frameworks(files, tech, IndicatorFiles(tech)[f]) :
                            f \in found}
             ELSE {}]

\* detected.sort(key=score, reverse=True)[0]: the sort is stable, so of the
\* technologies with the highest score the first of the dict is on top
RECURSIVE Top(_, _, _)
Top(files, t, best) ==
    IF t > Len(TechOrder) THEN best
    ELSE LET d == Scored(files, TechOrder[t])
         IN  Top(files, t + 1, IF d.score > best.score THEN d ELSE best)

\* TechnologyDetector.detect
detect(files) ==
    LET top == Top(files, 1, [technology |-> "unknown", score |-> 0,
                              frameworks |-> {}])
    IN  IF top.score = 0
        THEN [primary |-> "unknown", frameworks |-> {}, confidence |-> 0]
        ELSE [primary |-> top.technology,
              frameworks |-> top.frameworks,
              confidence |-> IF 2 * top.score < 100 THEN 2 * top.score ELSE 100]

(***************************************************************************)
(* main.py: what review_code (the tool) does with the engine's summary.    *)
(***************************************************************************)
\* dict[key] = value
Put(dict, key, value) ==
    [k \in DOMAIN dict \cup {key} |-> IF k = key THEN value ELSE dict[k]]

\* f"{Path(project_path).name}_{technology}": the last part of the path and
\* the technology, joined
ReviewId(path, tech) == << path[Len(path)], "_", tech >>

\* the result dict of lines 172-188
FormatResult(path, tech, summary) ==
    [project_path |-> path,
     technology |-> tech,
     summary |-> [total_checks |-> summary.total,
                  completed |-> summary.completed,
                  passed |-> summary.passed,
                  failed |-> summary.failed,
                  skipped |-> summary.skipped,
                  percentage |-> summary.percentage,
                  status |-> summary.status],
     duration_seconds |-> summary.duration_seconds,
     failures |-> summary.failures,
     status_text |-> <<summary.passed, summary.failed, summary.skipped>>]

(***************************************************************************)
(* ChecklistEngine.review_code, cut at the calls of progress_callback.     *)
(***************************************************************************)
\* Mutant of ReviewStart: progress_tracker.start runs before the count.
ReviewStart_start_first(tech, cb) ==
    /\ pc = "idle"
    /\ technology' = tech
    /\ has_callback' = cb
    /\ results' = << >>
    /\ all_results' = << >>
    /\ progress_updates' = << >>
    /\ scanned' = << >>
    /\ IF checklist_dir[tech] = None
       THEN /\ outcome' = Raised("FileNotFoundError")
            /\ events' = << Event("load_checklist", "", "") >>
            /\ UNCHANGED <<current_checklist, tracker, pc, ci, ii>>
       ELSE LET checklist == checklist_dir[tech][1]
                categories == checklist["categories"]
            IN  /\ current_checklist' = Some(checklist)
                /\ IF LacksItems(categories)
                   THEN /\ tracker' = start(tracker, 0)
                        /\ outcome' = Raised("KeyError")
                        /\ events' = << Event("load_checklist", "", ""),
                                        Event("start", "", "") >>
                        /\ UNCHANGED <<pc, ci, ii>>
                   ELSE /\ tracker' = start(tracker, CountChecks(categories))
                        /\ events' = << Event("load_checklist", "", ""),
                                        Event("start", "", "") >>
                        /\ ci' = SeekCategory(categories, 1)
                        /\ ii' = 1
                        /\ pc' = "loop"
                        /\ outcome' = NoOutcome
    /\ caller' = "engine"
    /\ UNCHANGED <<project_path, tree, checklist_dir, toolvars>>

\* lines 90-103: load_checklist, the count, progress_tracker.start
ReviewStart(tech, cb) ==
    /\ pc = "idle"
    /\ technology' = tech
    /\ has_callback' = cb
    /\ results' = << >>
    /\ all_results' = << >>
    /\ progress_updates' = << >>
    /\ scanned' = << >>
    /\ IF checklist_dir[tech] = None
       THEN \* load_checklist raises FileNotFoundError
            /\ outcome' = Raised("FileNotFoundError")
            /\ events' = << Event("load_checklist", "", "") >>
            /\ UNCHANGED <<current_checklist, tracker, pc, ci, ii>>
       ELSE LET checklist == checklist_dir[tech][1]
                categories == checklist["categories"]
            IN  /\ current_checklist' = Some(checklist)
                /\ IF LacksItems(categories)
                   THEN \* category['items'] raises KeyError
                        /\ outcome' = Raised("KeyError")
                        /\ events' = << Event("load_checklist", "", "") >>
                        /\ UNCHANGED <<tracker, pc, ci, ii>>
                   ELSE /\ tracker' = start(tracker, CountChecks(categories))
                        /\ events' = << Event("load_checklist", "", ""),
                                        Event("start", "", "") >>
                        /\ ci' = SeekCategory(categories, 1)
                        /\ ii' = 1
                        /\ pc' = "loop"
                        /\ outcome' = NoOutcome
    /\ caller' = "engine"
    /\ UNCHANGED <<project_path, tree, checklist_dir, toolvars>>

\* lines 106-116: update_check, then progress_callback (pre)
PreCheck ==
    /\ pc = "loop"
    /\ ci <= Len(Categories)
    /\ LET check == CurrentItem
           t == update_check(tracker, check["id"], check["description"])
       IN  /\ tracker' = t
           /\ IF has_callback
              THEN /\ progress_updates' = Append(progress_updates, get_progress(t))
                   /\ events' = events \o << Event("update_check", check["id"], ""),
                                             Event("callback", check["id"], "") >>
              ELSE /\ progress_updates' = progress_updates
                   /\ events' = Append(events, Event("update_check", check["id"], ""))
    /\ pc' = "exec"
    /\ UNCHANGED <<project_path, tree, checklist_dir, current_checklist,
                   technology, has_callback, ci, ii, results, all_results,
                   scanned, outcome, caller, toolvars>>

\* lines 118-139: _execute_check, the recording of its results, all_results
ExecuteCheck ==
    /\ pc = "exec"
    /\ LET check == Tagged(CurrentItem, technology)
           run == _execute_check(check)
       IN  /\ current_checklist' =
                  Some([current_checklist[1] EXCEPT
                            !["categories"][ci]["items"][ii] = check])
           /\ results' = run.results
           /\ scanned' = IF run.validator = "PatternValidator"
                         THEN PatternFiles(check) ELSE << >>
           /\ tracker' = RecordResults(tracker, check["id"],
                                       CurrentCategory["name"], run.results)
           /\ all_results' = all_results \o run.results
           /\ events' = events \o << Event("validate", check["id"], run.validator),
                                     Event("record", check["id"], "") >>
    /\ pc' = "post"
    /\ UNCHANGED <<project_path, tree, checklist_dir, technology, has_callback,
                   ci, ii, progress_updates, outcome, caller, toolvars>>

\* lines 141-142: progress_callback (post), then the loops step
PostCheck ==
    /\ pc = "post"
    /\ IF has_callback
       THEN /\ progress_updates' = Append(progress_updates, get_progress(tracker))
            /\ events' = Append(events, Event("callback", CurrentItem["id"], ""))
       ELSE UNCHANGED <<progress_updates, events>>
    /\ IF ii < Len(CurrentCategory["items"])
       THEN ii' = ii + 1 /\ ci' = ci
       ELSE ii' = 1 /\ ci' = SeekCategory(Categories, ci + 1)
    /\ pc' = "loop"
    /\ UNCHANGED <<project_path, tree, checklist_dir, current_checklist, tracker,
                   technology, has_callback, results, all_results, scanned,
                   outcome, caller, toolvars>>

\* lines 144-148: progress_tracker.complete, return get_summary(); and, when
\* the tool called, main.py lines 172-194: format, store, return
Complete ==
    /\ pc = "loop"
    /\ ci > Len(Categories)
    /\ tracker' = complete(tracker)
    /\ outcome' = [kind |-> "returned", error |-> "",
                   summary |-> Some(get_summary(complete(tracker)))]
    /\ events' = Append(events, Event("complete", "", ""))
    /\ pc' = "idle"
    /\ IF caller = "tool"
       THEN LET result == FormatResult(project_path, technology,
                                       get_summary(complete(tracker)))
            IN  /\ active_reviews' =
                       Put(active_reviews, ReviewId(project_path, technology),
                           result)
                /\ reply' = Reply("review_code", <<project_path, technology>>,
                                   "", Some(result))
                /\ history' = Put(history, <<project_path, technology>>, result)
       ELSE UNCHANGED toolvars
    /\ UNCHANGED <<project_path, tree, checklist_dir, current_checklist,
                   technology, has_callback, ci, ii, results, all_results,
                   progress_updates, scanned, caller>>

(***************************************************************************)
(* main.py: the get_checklist tool (a fresh engine, load_checklist, format) *)
(***************************************************************************)
FormatChecklist(checklist) ==
    [technology |-> checklist["technology"],
     description |-> checklist["description"],
     categories |->
        [c \in 1..Len(checklist["categories"]) |->
            LET category == checklist["categories"][c]
            IN  [name |-> category["name"],
                 checks |-> [k \in 1..Len(category["items"]) |->
                    LET check == category["items"][k]
                    IN  [id |-> check["id"],
                         description |-> check["description"],
                         severity |-> Get(check, "severity", "info")]]]]]

\* get_checklist: what the tool returns for a technology
get_checklist(tech) ==
    IF checklist_dir[tech] = None
    THEN [error |-> "FileNotFoundError", checklist |-> None]
    ELSE IF LacksItems(checklist_dir[tech][1]["categories"])
         THEN [error |-> "KeyError", checklist |-> None]
         ELSE [error |-> "",
               checklist |-> Some(FormatChecklist(checklist_dir[tech][1]))]

(***************************************************************************)
(* The inputs: checklists (the .yaml files), project trees, project roots. *)
(***************************************************************************)
Technologies == {"python", "go", "rust"}

CheckIds == <<"CHK-1", "CHK-2", "CHK-3", "CHK-4", "CHK-5">>
CategoryNames == <<"Security", "Quality", "Docs", "Tests">>

File(path, readable, content) ==
    [path |-> path, readable |-> readable, content |-> content]

HomeRoot == <<"/", "home", "proj">>       \* Path("/home/proj").parts
BuildRoot == <<"/", "srv", "build", "proj">>
DotRoot == << >>                          \* Path(".").parts
Roots == {HomeRoot, BuildRoot, DotRoot}

Checklist(tech, categories) ==
    [technology |-> tech, description |-> "checklist", categories |-> categories]

\* the check of one shape at position n of its checklist
ShapeNames == {"pattern_hit", "pattern_clean", "files_missing", "placeholder"}

MakeCheck(shape, n) ==
    CASE shape = "pattern_hit" ->
            [id |-> CheckIds[n], description |-> "no marker left",
             severity |-> "critical", patterns |-> << <<"t">> >>,
             files |-> << <<"LICENSE">> >>]
      [] shape = "pattern_clean" ->
            [id |-> CheckIds[n], description |-> "no q",
             patterns |-> << <<"q">> >>]
      [] shape = "files_missing" ->
            [id |-> CheckIds[n], description |-> "has a licence",
             severity |-> "warning", files |-> << <<"LICENSE">> >>]
      [] OTHER ->
            [id |-> CheckIds[n], description |-> "placeholder"]

Offset(sizes, c) ==
    LET S[k \in 0..Len(sizes)] == IF k = 0 THEN 0 ELSE S[k - 1] + sizes[k]
    IN  S[c - 1]

BuildCategories(shapes, sizes) ==
    [c \in 1..Len(sizes) |->
        [name |-> CategoryNames[c],
         items |-> [k \in 1..sizes[c] |->
                       MakeCheck(shapes[Offset(sizes, c) + k],
                                 Offset(sizes, c) + k)]]]

GeneratedCategories ==
    {BuildCategories(sz[1], sz[2]) :
        sz \in {p \in SeqsUpTo(ShapeNames, MaxChecks)
                      \X SeqsUpTo(0..MaxChecks, MaxCategories) :
                    Offset(p[2], Len(p[2]) + 1) = Len(p[1])}}

GoChecklist ==
    Checklist("go",
        << [name |-> "Go",
            items |-> << [id |-> "GO-1", description |-> "no x",
                          severity |-> "warning", patterns |-> << <<"X">> >>],
                         [id |-> "GO-2", description |-> "has go.mod",
                          files |-> << <<"go.mod">> >>] >>] >>)

DemoTree ==
    << File(<<"a.py">>, TRUE, <<"T", NL, "t">>),
       File(<<"README.md">>, TRUE, <<"x">>),
       File(<<"src", "b.py">>, TRUE, <<"x">>),
       File(<<"m.go">>, TRUE, <<"x">>) >>

Chars == {"T", "x", NL}
Contents == SeqsUpTo(Chars, MaxContentLen)
PatternVocab == {<<"t">>, <<"x">>, <<"q">>}

PathUniverse ==
    << <<"a.py">>, <<"src", "b.py">>, <<"venv", "a.py">>,
       <<"src", "node_modules", "b.py">>, <<"m.go">>, <<"build", "m.go">>,
       <<"README.md">>, <<"docs", "README.md">> >>

\* the trees made of some of the given paths, in the given order
TreesOver(paths) ==
    {[k \in 1..Len(sub) |-> File(sub[k], TRUE, <<"T">>)] :
        sub \in {SelectSeq(paths, LAMBDA q : q \in chosen) :
                    chosen \in SUBSET Range(paths)}}

(***************************************************************************)
(* main.py: the review_code and get_review_status tools, over a fixed file *)
(* system.  A technology argument that is omitted is "".                   *)
(***************************************************************************)
WorkRoot == <<"/", "work", "proj">>
DocsRoot == <<"/", "home", "docs">>
ReadmePath == HomeRoot \o <<"README.md">>
MissingRoot == <<"/", "home", "gone">>
ToolPaths == {HomeRoot, WorkRoot, DocsRoot, ReadmePath, MissingRoot}
ToolTechnologies == {"", "python", "rust"}

WorkTree ==
    << File(<<"go.mod">>, TRUE, <<"x">>),
       File(<<"m.go">>, TRUE, <<"T">>),
       File(<<"a.py">>, TRUE, <<"x">>) >>

\* Path.exists(), Path.is_dir() of a path the tools are given
DiskKind(path) ==
    CASE path \in {HomeRoot, WorkRoot, DocsRoot} -> "dir"
      [] path = ReadmePath -> "file"
      [] OTHER -> "missing"

\* what is under it (nothing under a regular file)
DiskTree(path) ==
    CASE path = HomeRoot -> DemoTree
      [] path = WorkRoot -> WorkTree
      [] path = DocsRoot -> << File(<<"README.md">>, TRUE, <<"x">>) >>
      [] OTHER -> << >>

\* detect_technology(project_path), for the paths that exist: the file system
\* is fixed, so it is a function of the path
detect_technology == [path \in ToolPaths |-> detect(DiskTree(path))]

\* Mutant of ToolReviewFails: a failed review empties the registry.
ToolReviewFails_clears_registry(path, tech, error, evs) ==
    /\ reply' = Reply("review_code", <<path, tech>>, error, None)
    /\ outcome' = IF evs = << >> THEN NoOutcome ELSE Raised(error)
    /\ events' = evs
    /\ pc' = "idle"
    /\ tracker' = ProgressTracker_init
    /\ ci' = 0
    /\ ii' = 0
    /\ active_reviews' = << >>
    /\ UNCHANGED history

\* review_code returns an error payload: `return` at lines 152-156, or the
\* except clauses at lines 196-205.  The engine of the call, if one was
\* built, never started its Progress Model.
ToolReviewFails(path, tech, error, evs) ==
    /\ reply' = Reply("review_code", <<path, tech>>, error, None)
    /\ outcome' = IF evs = << >> THEN NoOutcome ELSE Raised(error)
    /\ events' = evs
    /\ pc' = "idle"
    /\ tracker' = ProgressTracker_init
    /\ ci' = 0
    /\ ii' = 0
    /\ UNCHANGED <<active_reviews, history>>

\* review_code (the tool), lines 148-170: detection, a new engine, and the
\* engine's review_code up to its first callback
ToolReviewStart(path, tech_arg) ==
    /\ pc = "idle"
    /\ caller' = "tool"
    /\ project_path' = path
    /\ tree' = DiskTree(path)
    /\ has_callback' = TRUE
    /\ results' = << >>
    /\ all_results' = << >>
    /\ progress_updates' = << >>
    /\ scanned' = << >>
    /\ UNCHANGED checklist_dir
    /\ LET detection == detect_technology[path]
           tech == IF tech_arg = "" THEN detection.primary ELSE tech_arg
       IN  /\ technology' = tech
           /\ IF DiskKind(path) = "missing"
              THEN \* TechnologyDetector / ChecklistEngine raise ValueError
                   /\ ToolReviewFails(path, tech_arg, "ValueError", << >>)
                   /\ current_checklist' = None
              ELSE IF tech = "unknown"
              THEN /\ ToolReviewFails(path, tech_arg,
                                      "Could not detect technology", << >>)
                   /\ current_checklist' = None
              ELSE IF tech \notin DOMAIN checklist_dir \/ checklist_dir[tech] = None
              THEN /\ ToolReviewFails(path, tech_arg, "FileNotFoundError",
                                      << Event("load_checklist", "", "") >>)
                   /\ current_checklist' = None
              ELSE LET categories == checklist_dir[tech][1]["categories"]
                   IN  /\ current_checklist' = Some(checklist_dir[tech][1])
                       /\ IF LacksItems(categories)
                          THEN ToolReviewFails(path, tech_arg, "KeyError",
                                   << Event("load_checklist", "", "") >>)
                          ELSE /\ tracker' = start(ProgressTracker_init,
                                                   CountChecks(categories))
                               /\ events' = << Event("load_checklist", "", ""),
                                               Event("start", "", "") >>
                               /\ ci' = SeekCategory(categories, 1)
                               /\ ii' = 1
                               /\ pc' = "loop"
                               /\ outcome' = NoOutcome
                               /\ reply' = NoReply
                               /\ UNCHANGED <<active_reviews, history>>

\* get_review_status, as a function of the registry
get_review_status(registry, path, tech_arg) ==
    IF tech_arg = "" /\ DiskKind(path) = "missing"
    THEN Reply("get_review_status", <<path, tech_arg>>, "ValueError", None)
    ELSE LET tech == IF tech_arg = "" THEN detect_technology[path].primary
                     ELSE tech_arg
             review_id == ReviewId(path, tech)
         IN  IF review_id \in DOMAIN registry
             THEN Reply("get_review_status", <<path, tech_arg>>, "",
                        Some(registry[review_id]))
             ELSE Reply("get_review_status", <<path, tech_arg>>,
                        "No active review found for this project", None)

\* a call of the get_review_status tool
GetStatus(path, tech_arg) ==
    /\ pc = "idle"
    /\ reply' = get_review_status(active_reviews, path, tech_arg)
    /\ UNCHANGED <<project_path, tree, checklist_dir, current_checklist, tracker,
                   pc, technology, has_callback, ci, ii, results, all_results,
                   progress_updates, events, scanned, outcome, caller,
                   active_reviews, history>>

(***************************************************************************)
(* reporters/progress_tracker.py: the methods of one ProgressTracker,      *)
(* called in any order.                                                    *)
(***************************************************************************)
FailureInfos ==
    {FailureInfo("CHK-1", "Quality",
                 ValidationResult("CHK-1", FALSE,
                                  Msg("Pattern match", "no marker left", << >>),
                                  <<"a.py">>, 1, "warning")),
     FailureInfo("CHK-2", "Docs",
                 ValidationResult("CHK-2", FALSE,
                                  Msg("Missing required files", "",
                                      << <<"LICENSE">> >>),
                                  NoPath, 0, "info"))}

\* a method call that returns nothing: the tracker after it
TrackerCall(method, argument, t) ==
    /\ tracker' = t
    /\ reply' = Reply(method, argument, "", None)
    /\ UNCHANGED <<project_path, tree, checklist_dir, current_checklist, pc,
                   technology, has_callback, ci, ii, results, all_results,
                   progress_updates, events, scanned, outcome, caller,
                   active_reviews, history>>

TrackerStart(total) == TrackerCall("start", <<total>>, start(tracker, total))

TrackerUpdateCheck(id) ==
    TrackerCall("update_check", <<id>>, update_check(tracker, id, "a check"))

Recordable == tracker.passed + tracker.failed + tracker.skipped < MaxRecords

TrackerRecordPass ==
    Recordable /\ TrackerCall("record_pass", << >>, record_pass(tracker))

TrackerRecordFail(failure_info) ==
    /\ Recordable
    /\ TrackerCall("record_fail", <<failure_info>>,
                   record_fail(tracker, failure_info))

TrackerRecordSkip ==
    Recordable /\ TrackerCall("record_skip", << >>, record_skip(tracker))

TrackerComplete == TrackerCall("complete", << >>, complete(tracker))

TrackerGetProgress ==
    /\ tracker' = get_progress_call(tracker).self
    /\ reply' = Reply("get_progress", << >>, "",
                      Some(get_progress_call(tracker).value))
    /\ UNCHANGED <<project_path, tree, checklist_dir, current_checklist, pc,
                   technology, has_callback, ci, ii, results, all_results,
                   progress_updates, events, scanned, outcome, caller,
                   active_reviews, history>>

(***************************************************************************)
(* technology_detector.py: detection over the directories made of some of  *)
(* these files.                                                            *)
(***************************************************************************)
MarkerFiles ==
    << File(<<"go.mod">>, TRUE, <<"x">>),
       File(<<"go.sum">>, TRUE, <<"x">>),
       File(<<"m.go">>, TRUE, <<"x">>),
       File(<<"src", "requirements.txt">>, TRUE, <<"f", "l", "a", "s", "k">>),
       File(<<"requirements.txt">>, TRUE, <<"f", "l", "a", "s", "k", NL>>),
       File(<<"a.py">>, TRUE, <<"x">>),
       File(<<"package.json">>, FALSE, << >>) >>

DetectTrees ==
    {SelectSeq(MarkerFiles, LAMBDA e : e \in chosen) :
        chosen \in SUBSET Range(MarkerFiles)}

\* detect_technology(project_path) on the project directory
DetectTechnology ==
    /\ pc = "idle"
    /\ reply' = Reply("detect_technology", <<project_path, "">>, "",
                      Some(detect(tree)))
    /\ UNCHANGED <<project_path, tree, checklist_dir, current_checklist, tracker,
                   pc, technology, has_callback, ci, ii, results, all_results,
                   progress_updates, events, scanned, outcome, caller,
                   active_reviews, history>>

InitEngine ==
    /\ current_checklist = None
    /\ tracker = ProgressTracker_init
    /\ pc = "idle"
    /\ technology = ""
    /\ has_callback = FALSE
    /\ ci = 0
    /\ ii = 0
    /\ results = << >>
    /\ all_results = << >>
    /\ progress_updates = << >>
    /\ events = << >>
    /\ scanned = << >>
    /\ outcome = NoOutcome
    /\ caller = "engine"
    /\ active_reviews = << >>
    /\ reply = NoReply
    /\ history = << >>

DirWith(python) ==
    [tech \in Technologies |->
        CASE tech = "python" -> Some(python)
          [] tech = "go" -> Some(GoChecklist)
          [] OTHER -> None]

\* any checklist of the generated shapes, over one project
InitRunner ==
    /\ project_path = HomeRoot
    /\ tree = DemoTree
    /\ \E categories \in GeneratedCategories :
           checklist_dir = DirWith(Checklist("python", categories))

\* one pattern check, over any text of a.py and any list of patterns
InitPattern ==
    /\ project_path = HomeRoot
    /\ \E content \in Contents, readable \in BOOLEAN,
          rest \in {<< >>,
                    << File(<<"src", "b.py">>, TRUE, <<"x", NL, "T">>) >>,
                    << File(<<"src", "b.py">>, FALSE, << >>) >>} :
           tree = << File(<<"a.py">>, readable, content) >> \o rest
    /\ \E patterns \in SeqsUpTo(PatternVocab, MaxPatterns) :
           checklist_dir = DirWith(Checklist("python",
               << [name |-> "Quality",
                   items |-> << [id |-> "CHK-1", description |-> "no marker left",
                                 severity |-> "warning",
                                 patterns |-> patterns] >>] >>))

\* one pattern check, over any tree of the path universe, at any root
InitScan ==
    /\ project_path \in Roots
    /\ tree \in TreesOver(PathUniverse)
    /\ checklist_dir = DirWith(Checklist("python",
           << [name |-> "Quality",
               items |-> << [id |-> "CHK-1", description |-> "no marker left",
                             patterns |-> << <<"t">> >>] >>] >>))

FileNames == {<<"README.md">>, <<"LICENSE">>, <<"docs", "README.md">>}

\* one file-existence check, over any list of names and any tree
InitFiles ==
    /\ project_path = HomeRoot
    /\ tree \in TreesOver(<< <<"README.md">>, <<"LICENSE">>,
                            <<"docs", "README.md">>, <<"src", "LICENSE">> >>)
    /\ \E files \in SeqsUpTo(FileNames, MaxPatterns), declared \in BOOLEAN :
           checklist_dir = DirWith(Checklist("python",
               << [name |-> "Docs",
                   items |-> << IF declared
                                THEN [id |-> "CHK-1", description |-> "documented",
                                      severity |-> "warning", files |-> files]
                                ELSE [id |-> "CHK-1", description |-> "documented",
                                      files |-> files] >>] >>))

\* a pattern check over a tree with a file that cannot be read, and one
\* more check after it
InitAbsorb ==
    /\ project_path = HomeRoot
    /\ \E content \in Contents, first \in BOOLEAN :
           tree = IF first
                  THEN << File(<<"a.py">>, FALSE, << >>),
                          File(<<"src", "b.py">>, TRUE, content) >>
                  ELSE << File(<<"a.py">>, TRUE, content),
                          File(<<"src", "b.py">>, FALSE, << >>),
                          File(<<"src", "pkg.py">>, TRUE, <<"x", NL, "T">>) >>
    /\ \E patterns \in SeqsUpTo(PatternVocab, MaxPatterns) :
           checklist_dir = DirWith(Checklist("python",
               << [name |-> "Quality",
                   items |-> << [id |-> "CHK-1", description |-> "no marker left",
                                 severity |-> "warning",
                                 patterns |-> patterns] >>],
                  [name |-> "Docs",
                   items |-> << [id |-> "CHK-2", description |-> "documented",
                                 files |-> << <<"README.md">> >>] >>] >>))

InsertAt(seq, p, x) == SubSeq(seq, 1, p - 1) \o <<x>> \o SubSeq(seq, p, Len(seq))

\* a checklist with one category that has no 'items', at any position among
\* categories of the generated shapes
InitMalformed ==
    /\ project_path = HomeRoot
    /\ tree = DemoTree
    /\ \E categories \in {c \in GeneratedCategories : CountChecks(c) <= 1},
          p \in 1..MaxCategories + 1 :
           /\ p <= Len(categories) + 1
           /\ checklist_dir =
                  DirWith(Checklist("python",
                      InsertAt(categories, p, [name |-> "Broken"])))

Init == InitEngine /\ (InitRunner \/ InitMalformed)

\* any sequence of review_code calls on one engine
Next ==
    \/ \E tech \in Technologies, cb \in BOOLEAN : ReviewStart(tech, cb)
    \/ PreCheck
    \/ ExecuteCheck
    \/ PostCheck
    \/ Complete

Spec == Init /\ [][Next]_vars

InitValidators ==
    InitEngine /\ (InitPattern \/ InitScan \/ InitFiles \/ InitAbsorb)

\* test_tools.py, Test 4: review_code(technology, progress_callback=...)
NextValidators ==
    \/ \E tech \in Technologies : ReviewStart(tech, TRUE)
    \/ PreCheck
    \/ ExecuteCheck
    \/ PostCheck
    \/ Complete

SpecValidators == InitValidators /\ [][NextValidators]_vars

\* the server starts with an empty registry
InitTool ==
    /\ InitEngine
    /\ project_path = HomeRoot
    /\ tree = DiskTree(HomeRoot)
    /\ checklist_dir = DirWith(Checklist("python",
           BuildCategories(<<"pattern_hit", "files_missing">>, <<1, 1>>)))

\* any sequence of tool calls, one at a time
NextTool ==
    \/ \E path \in ToolPaths, tech \in ToolTechnologies : ToolReviewStart(path, tech)
    \/ \E path \in ToolPaths, tech \in ToolTechnologies : GetStatus(path, tech)
    \/ PreCheck
    \/ ExecuteCheck
    \/ PostCheck
    \/ Complete

SpecTool == InitTool /\ [][NextTool]_vars

\* a new ProgressTracker
InitTracker ==
    /\ InitEngine
    /\ project_path = HomeRoot
    /\ tree = << >>
    /\ checklist_dir = [tech \in Technologies |-> None]

NextTracker ==
    \/ \E total \in 0..MaxRecords : TrackerStart(total)
    \/ \E id \in {"CHK-1", "CHK-2"} : TrackerUpdateCheck(id)
    \/ TrackerRecordPass
    \/ \E failure_info \in FailureInfos : TrackerRecordFail(failure_info)
    \/ TrackerRecordSkip
    \/ TrackerComplete
    \/ TrackerGetProgress

SpecTracker == InitTracker /\ [][NextTracker]_vars

\* a project directory holding any of the marker files
InitDetect ==
    /\ InitEngine
    /\ project_path = HomeRoot
    /\ tree \in DetectTrees
    /\ checklist_dir = [tech \in Technologies |-> None]

NextDetect == DetectTechnology

SpecDetect == InitDetect /\ [][NextDetect]_vars

(***************************************************************************)
(* Vocabulary of the properties.                                           *)
(***************************************************************************)
\* the checklist definition the running (or last) review loaded
Loaded == checklist_dir[technology][1]

\* its checks in category order, then item order, with their category
FlatChecks(checklist) ==
    Concat([c \in 1..Len(checklist["categories"]) |->
              [k \in 1..Len(checklist["categories"][c]["items"]) |->
                  [category |-> checklist["categories"][c]["name"],
                   check |-> checklist["categories"][c]["items"][k]]]])

\* a review got past load_checklist and the count, and is running or returned
ReviewActive == pc # "idle" \/ outcome.kind = "returned"
Returned == pc = "idle" /\ outcome.kind = "returned"
Summary == outcome.summary[1]

\* the check with this id had a failing result
HadFailure(id) ==
    \E k \in 1..Len(all_results) :
        all_results[k].check_id = id /\ ~ all_results[k].passed

\* the snapshots and the final summary that a caller has seen
Counted(s) == s.completed = s.passed + s.failed + s.skipped

(***************************************************************************)
(* C1.  In every snapshot handed to the progress callback and in the final *)
(* summary, completed = passed + failed + skipped and completed is at most *)
(* total_checks.                                                           *)
(***************************************************************************)
C1_CompletedWithinTotal ==
    /\ \A k \in 1..Len(progress_updates) :
           Counted(progress_updates[k])
           /\ progress_updates[k].completed <= progress_updates[k].total
    /\ Returned => Counted(Summary) /\ Summary.completed <= Summary.total

(***************************************************************************)
(* C2.  Each executed check is recorded exactly once: when the review      *)
(* returns, passed + failed = total_checks and failed is the number of     *)
(* checks that had at least one failing result.                            *)
(***************************************************************************)
C2_EachCheckRecordedOnce ==
    Returned =>
        /\ Summary.passed + Summary.failed = Summary.total
        /\ Summary.failed =
               Cardinality({k \in 1..Len(FlatChecks(Loaded)) :
                               HadFailure(FlatChecks(Loaded)[k].check["id"])})

(***************************************************************************)
(* C3.  From start() onward the total of the Progress Model, of every      *)
(* snapshot and of the final summary is the number of (category, item)     *)
(* pairs of the loaded checklist; so it does not change during the review. *)
(***************************************************************************)
ItemCount(checklist) ==
    Cardinality({p \in (1..Len(checklist["categories"])) \X (1..MaxChecks + 2) :
                    p[2] <= Len(checklist["categories"][p[1]]["items"])})

C3_TotalIsSumOfItems ==
    ReviewActive =>
        /\ tracker.total_checks = ItemCount(Loaded)
        /\ \A k \in 1..Len(progress_updates) :
               progress_updates[k].total = ItemCount(Loaded)
        /\ Returned => Summary.total = ItemCount(Loaded)

C3_Witness ==
    /\ Returned
    /\ Len(Loaded["categories"]) = 2
    /\ Summary.total = 3
    /\ Len(progress_updates) = 6

(***************************************************************************)
(* C4.  With a callback the calls of the Runner are, for the checks        *)
(* c1..cn in category order then item order: mark ci, callback (pre),      *)
(* validate ci, record ci, callback (post), and after cn the finalization. *)
(* The callback runs 2n times; the pre snapshot of ci is in progress, names *)
(* ci and has the counters of the previous post snapshot; the post snapshot *)
(* is not in progress and counts ci's outcome; nothing follows complete.   *)
(***************************************************************************)
ExpectedEvents(checks) ==
    << Event("load_checklist", "", ""), Event("start", "", "") >>
    \o Concat([k \in 1..Len(checks) |->
                 << Event("update_check", checks[k].check["id"], ""),
                    Event("callback", checks[k].check["id"], ""),
                    Event("validate", checks[k].check["id"],
                          IF "patterns" \in DOMAIN checks[k].check
                          THEN "PatternValidator" ELSE "FileValidator"),
                    Event("record", checks[k].check["id"], ""),
                    Event("callback", checks[k].check["id"], "") >>])
    \o << Event("complete", "", "") >>

PreSnapshotOk(checks, k) ==
    LET pre == progress_updates[2 * k - 1]
    IN  /\ pre.in_progress
        /\ pre.current_check = Some([id |-> checks[k].check["id"],
                                     description |-> checks[k].check["description"]])
        /\ IF k = 1
           THEN pre.passed = 0 /\ pre.failed = 0 /\ pre.skipped = 0
           ELSE /\ pre.passed = progress_updates[2 * k - 2].passed
                /\ pre.failed = progress_updates[2 * k - 2].failed
                /\ pre.skipped = progress_updates[2 * k - 2].skipped

PostSnapshotOk(checks, k) ==
    LET pre == progress_updates[2 * k - 1]
        post == progress_updates[2 * k]
    IN  /\ ~ post.in_progress
        /\ post.current_check = pre.current_check
        /\ IF HadFailure(checks[k].check["id"])
           THEN post.failed > pre.failed /\ post.passed = pre.passed
           ELSE post.passed = pre.passed + 1 /\ post.failed = pre.failed

C4_CallbackTrace ==
    (ReviewActive /\ has_callback) =>
        LET checks == FlatChecks(Loaded)
        IN  /\ IsPrefix(events, ExpectedEvents(checks))
            /\ Returned => /\ events = ExpectedEvents(checks)
                           /\ Len(progress_updates) = 2 * Len(checks)
            /\ Len(progress_updates) =
                   Cardinality({e \in 1..Len(events) : events[e].ev = "callback"})
            /\ \A k \in 1..Len(checks) :
                   /\ 2 * k - 1 <= Len(progress_updates) => PreSnapshotOk(checks, k)
                   /\ 2 * k <= Len(progress_updates) => PostSnapshotOk(checks, k)
            /\ (tracker.end_time # None /\ tracker.start_time # None /\ Returned)
                   => events[Len(events)].ev = "complete"

C4_Witness ==
    /\ Returned
    /\ has_callback
    /\ Len(progress_updates) = 6
    /\ progress_updates[6].failed >= 1
    /\ progress_updates[6].passed >= 1

(***************************************************************************)
(* C5.  The failures of a review are exactly the failing validation        *)
(* results of the executed checks, in execution order, each with the id of *)
(* its check and that check's category; no passing result is among them,   *)
(* and every id is an id of the checklist get_checklist returns.           *)
(***************************************************************************)
PositionOf(checks, id) ==
    CHOOSE k \in 1..Len(checks) : checks[k].check["id"] = id

RetrievedIds(tech) ==
    LET c == get_checklist(tech).checklist[1]
    IN  UNION {{c.categories[n].checks[k].id : k \in 1..Len(c.categories[n].checks)} :
                  n \in 1..Len(c.categories)}

C5_FailuresAreTheFailingResults ==
    ReviewActive =>
        LET checks == FlatChecks(Loaded)
            failing == SelectSeq(all_results, LAMBDA r : ~ r.passed)
            f == tracker.failures
        IN  /\ Len(f) = Len(failing)
            /\ \A k \in 1..Len(f) :
                   /\ f[k].check_id = failing[k].check_id
                   /\ f[k].message = failing[k].message
                   /\ f[k].file_path = failing[k].file_path
                   /\ f[k].line_number = failing[k].line_number
                   /\ f[k].severity = failing[k].severity
                   /\ f[k].check_id \in RetrievedIds(technology)
                   /\ f[k].category =
                          checks[PositionOf(checks, f[k].check_id)].category
            /\ \A j, k \in 1..Len(f) :
                   j < k => PositionOf(checks, f[j].check_id)
                                <= PositionOf(checks, f[k].check_id)
            /\ Returned => Summary.failures = f

C5_Witness ==
    /\ Returned
    /\ Len(Summary.failures) >= 3
    /\ \E j, k \in 1..Len(Summary.failures) :
           Summary.failures[j].category # Summary.failures[k].category
    /\ \E k \in 1..Len(all_results) : all_results[k].passed

(***************************************************************************)
(* C6.  The step that executes a check runs one strategy, chosen by the    *)
(* check's keys: the pattern strategy when it has 'patterns' (with 'files' *)
(* or without), the file-existence strategy otherwise; a check with        *)
(* neither key gets one passing result, "No files specified", and is       *)
(* recorded as passed.                                                     *)
(***************************************************************************)
C6_StrategyByShape ==
    [][(pc = "exec" /\ pc' = "post") =>
          LET check == CurrentItem
              tagged == Tagged(check, technology)
              validate == events'[Len(events') - 1]
          IN  /\ Len(events') = Len(events) + 2
              /\ validate.ev = "validate"
              /\ validate.id = check["id"]
              /\ IF "patterns" \in DOMAIN check
                 THEN /\ validate.validator = "PatternValidator"
                      /\ results' = PatternValidator_validate(tagged)
                 ELSE /\ validate.validator = "FileValidator"
                      /\ results' = FileValidator_validate(tagged)
              /\ ("patterns" \notin DOMAIN check /\ "files" \notin DOMAIN check) =>
                     /\ Len(results') = 1
                     /\ results'[1].passed
                     /\ results'[1].message.text = "No files specified"
                     /\ tracker'.passed = tracker.passed + 1
                     /\ tracker'.failed = tracker.failed
                     /\ tracker'.failures = tracker.failures
      ]_vars

C6_Witness ==
    /\ pc = "post"
    /\ "patterns" \in DOMAIN CurrentItem
    /\ "files" \in DOMAIN CurrentItem
    /\ results[1].message.text = "Pattern match"
    /\ \E k \in 1..Len(all_results) :
           all_results[k].message.text = "No files specified"

(***************************************************************************)
(* Vocabulary of the properties of the pattern strategy: where a literal   *)
(* occurs in a text, and the line an occurrence is on.                     *)
(***************************************************************************)
SameLetter(a, b) == a = b \/ {a, b} \in {{"t", "T"}, {"x", "X"}}

OccursAt(pattern, content, i) ==
    /\ i + Len(pattern) - 1 <= Len(content)
    /\ \A j \in 1..Len(pattern) : SameLetter(content[i + j - 1], pattern[j])

LineAt(content, i) == 1 + Cardinality({j \in 1..(i - 1) : content[j] = NL})

MatchOnLine(pattern, content, n) ==
    \E i \in 1..Len(content) : OccursAt(pattern, content, i) /\ LineAt(content, i) = n

\* a pattern check has just been validated
PatternRun == pc = "post" /\ "patterns" \in DOMAIN CurrentItem
DeclaredPatterns == CurrentItem["patterns"]

\* the entries of the tree that were scanned
ScannedEntries == {k \in 1..Len(tree) : project_path \o tree[k].path \in Range(scanned)}
AllScannedReadable == \A k \in ScannedEntries : tree[k].readable

\* (scanned file, declared pattern, line the pattern matches on)
Triples ==
    {t \in ScannedEntries \X (1..Len(DeclaredPatterns)) \X (1..MaxContentLen + 2) :
        MatchOnLine(DeclaredPatterns[t[2]], tree[t[1]].content, t[3])}

(***************************************************************************)
(* C7.  Over readable files, when some pattern matches some line, the      *)
(* results of a pattern check are exactly one failing result per (scanned  *)
(* file, declared pattern, line the pattern matches on, whatever the       *)
(* case), with the file's path relative to the root and the 1-based line.  *)
(***************************************************************************)
C7_OneFailurePerMatch ==
    (PatternRun /\ AllScannedReadable /\ Triples # {}) =>
        /\ Len(results) = Cardinality(Triples)
        /\ \A i \in 1..Len(results) :
               ~ results[i].passed /\ results[i].check_id = CurrentItem["id"]
        /\ \A k \in ScannedEntries, n \in 1..MaxContentLen + 2 :
               Cardinality({i \in 1..Len(results) :
                               /\ results[i].file_path = tree[k].path
                               /\ results[i].line_number = n})
                 = Cardinality({p \in 1..Len(DeclaredPatterns) :
                                   <<k, p, n>> \in Triples})

\* one file, one pattern, the only match on line 3, in the other case
C7_Witness ==
    /\ PatternRun
    /\ tree = << File(<<"a.py">>, TRUE, <<NL, NL, "T">>) >>
    /\ DeclaredPatterns = << <<"t">> >>
    /\ Len(results) = 1
    /\ ~ results[1].passed
    /\ results[1].line_number = 3
    /\ results[1].file_path = <<"a.py">>

(***************************************************************************)
(* C8 as stated.  A pattern check with no pattern, with no file to scan,   *)
(* or whose patterns match no line of any scanned file, yields exactly one *)
(* result, a passing one; the results are never empty, and never hold both *)
(* a passing and a failing result.                                         *)
(***************************************************************************)
NeverEmptyNeverMixed ==
    /\ results # << >>
    /\ ~ (/\ \E i \in 1..Len(results) : results[i].passed
          /\ \E i \in 1..Len(results) : ~ results[i].passed)

OnePassingResult == Len(results) = 1 /\ results[1].passed

C8_Original ==
    PatternRun =>
        /\ (DeclaredPatterns = << >> \/ scanned = << >> \/ Triples = {})
               => OnePassingResult
        /\ NeverEmptyNeverMixed

(***************************************************************************)
(* C8, amended.  The same, for a check whose scanned files can all be      *)
(* read: a file that cannot be read gives a failing result of its own.     *)
(***************************************************************************)
C8_CleanScanPasses ==
    PatternRun =>
        /\ (DeclaredPatterns = << >> \/ scanned = << >>
              \/ (AllScannedReadable /\ Triples = {}))
               => OnePassingResult
        /\ NeverEmptyNeverMixed

C8_Witness ==
    /\ PatternRun
    /\ Len(scanned) = 2
    /\ AllScannedReadable
    /\ Len(DeclaredPatterns) = 2
    /\ Triples = {}
    /\ OnePassingResult
    /\ results[1].message.embedded = CurrentItem["description"]

(***************************************************************************)
(* C9.  A file-existence check with names gives exactly one result: it     *)
(* passes exactly when one of the names is a file or directory of the      *)
(* project root; otherwise it fails, its message lists every declared name *)
(* and its severity is the declared one, or info when none is declared.    *)
(***************************************************************************)
FileRun ==
    /\ pc = "post"
    /\ "patterns" \notin DOMAIN CurrentItem
    /\ Get(CurrentItem, "files", << >>) # << >>

AtRoot(name) == \E k \in 1..Len(tree) : IsPrefix(name, tree[k].path)

C9_OneOfTheNamedFiles ==
    FileRun =>
        LET files == CurrentItem["files"]
        IN  /\ Len(results) = 1
            /\ results[1].passed <=> \E k \in 1..Len(files) : AtRoot(files[k])
            /\ ~ results[1].passed =>
                   /\ results[1].message.names = files
                   /\ results[1].severity =
                          IF "severity" \in DOMAIN CurrentItem
                          THEN CurrentItem["severity"] ELSE "info"

\* the name is in the tree, but not at the root
C9_Witness ==
    /\ FileRun
    /\ CurrentItem["files"] = << <<"LICENSE">>, <<"README.md">> >>
    /\ "severity" \in DOMAIN CurrentItem
    /\ \E k \in 1..Len(tree) : tree[k].path = <<"src", "LICENSE">>
    /\ ~ results[1].passed
    /\ results[1].severity = "warning"
    /\ results[1].message.names = << <<"LICENSE">>, <<"README.md">> >>

(***************************************************************************)
(* C10.  The files a pattern check scans are exactly the files of the tree *)
(* whose extension is one of the technology's and that have no directory   *)
(* of an ignored name between the root and themselves; so the scanned set  *)
(* does not depend on where the root is.                                   *)
(***************************************************************************)
UnderIgnoredDirectory(path) ==
    \E d \in 1..(Len(path) - 1) : path[d] \in skip_dirs

C10_ScannedSetByRelativePath ==
    (PatternRun /\ DeclaredPatterns # << >>) =>
        Range(scanned) =
            {project_path \o tree[k].path :
                k \in {n \in 1..Len(tree) :
                          /\ Suffix(tree[n].path[Len(tree[n].path)])
                                 \in Range(_get_extensions(technology))
                          /\ ~ UnderIgnoredDirectory(tree[n].path)}}

(***************************************************************************)
(* C11.  A file that cannot be read during a pattern scan gives exactly    *)
(* one result for that file: failing, of severity "error", with the error  *)
(* embedded in its message.  The other files of the check are scanned and  *)
(* their matches reported, one per (pattern, line); and the review goes on *)
(* through every remaining check to its finalization.                      *)
(***************************************************************************)
ResultsFor(k) == {i \in 1..Len(results) : results[i].file_path = tree[k].path}

C11_UnreadableFileAbsorbed ==
    /\ (PatternRun /\ DeclaredPatterns # << >>) =>
           \A k \in ScannedEntries :
               IF ~ tree[k].readable
               THEN /\ Cardinality(ResultsFor(k)) = 1
                    /\ \A i \in ResultsFor(k) :
                           /\ ~ results[i].passed
                           /\ results[i].severity = "error"
                           /\ results[i].check_id = CurrentItem["id"]
                           /\ results[i].message.text = "Error reading file"
                           /\ results[i].message.embedded # ""
               ELSE \A n \in 1..MaxContentLen + 2 :
                        Cardinality({i \in ResultsFor(k) :
                                        /\ results[i].line_number = n
                                        /\ ~ results[i].passed
                                        /\ results[i].message.text = "Pattern match"})
                          = Cardinality({p \in 1..Len(DeclaredPatterns) :
                                            <<k, p, n>> \in Triples})
    /\ Returned =>
           /\ events = ExpectedEvents(FlatChecks(Loaded))
           /\ Summary.status = "completed"

\* the second of three files cannot be read, the third has a match, and the
\* check after the pattern check was executed before the review returned
C11_Witness ==
    /\ Returned
    /\ Len(tree) = 3
    /\ ~ tree[2].readable
    /\ Len(FlatChecks(Loaded)) = 2
    /\ \E i, j \in 1..Len(all_results) :
           /\ i < j
           /\ all_results[i].file_path = tree[2].path
           /\ all_results[i].severity = "error"
           /\ all_results[j].file_path = tree[3].path
           /\ all_results[j].message.text = "Pattern match"
    /\ all_results[Len(all_results)].check_id = "CHK-2"
    /\ Summary.completed >= 2

(***************************************************************************)
(* C12.  When a category of the selected checklist has no 'items', at any  *)
(* position, review_code raises before any check runs: no validation is    *)
(* executed, the callback is not called, and the Progress Model is exactly *)
(* what it was before the call (not started, not reset).                   *)
(***************************************************************************)
C12_MalformedChecklistRaisesEarly ==
    [][(/\ pc = "idle"
        /\ technology' \in Technologies
        /\ checklist_dir[technology'] # None
        /\ LacksItems(checklist_dir[technology'][1]["categories"]))
       => /\ outcome'.kind = "raised"
          /\ outcome'.error = "KeyError"
          /\ pc' = "idle"
          /\ tracker' = tracker
          /\ progress_updates' = << >>
          /\ all_results' = << >>
          /\ \A e \in 1..Len(events') :
                 events'[e].ev \notin {"start", "update_check", "validate",
                                       "record", "callback", "complete"}
      ]_vars

\* the category without items is the last of three, and the Progress Model
\* still holds the counters and the end time of an earlier review
C12_Witness ==
    /\ pc = "idle"
    /\ outcome = Raised("KeyError")
    /\ technology = "python"
    /\ Len(Loaded["categories"]) = 3
    /\ "items" \notin DOMAIN Loaded["categories"][3]
    /\ tracker.total_checks = 2
    /\ tracker.failed >= 1
    /\ tracker.end_time # None

(***************************************************************************)
(* C13.  A review through the tool of a project path that does not exist   *)
(* or is not a directory (a regular file, say) aborts: no check is         *)
(* executed, no summary is returned, nothing is stored in the registry.    *)
(***************************************************************************)
\* the last call of review_code (the tool) was for this kind of path
ToolReviewOf(kinds) == caller = "tool" /\ DiskKind(project_path) \in kinds

Aborted ==
    /\ pc = "idle"
    /\ outcome.kind # "returned"
    /\ reply.tool = "review_code" => reply.error # "" /\ reply.value = None
    /\ all_results = << >>
    /\ \A e \in 1..Len(events) : events[e].ev # "validate"

NothingStoredFor(kinds) ==
    \A id \in DOMAIN active_reviews :
        DiskKind(active_reviews[id].project_path) \notin kinds

C13_InvalidPathAborts ==
    /\ ToolReviewOf({"missing", "file"}) => Aborted
    /\ NothingStoredFor({"missing", "file"})

(***************************************************************************)
(* C14.  get_review_status for a project path and a technology returns the *)
(* result stored by the most recent successful review of that same path    *)
(* with that technology, and the "no active review" error when there was   *)
(* none; so a review of another path or of another technology does not     *)
(* change what it returns for this one.                                    *)
(***************************************************************************)
\* the technology a request is for: the detected one when it was omitted
Resolved(request) ==
    IF request[2] = "" THEN detect_technology[request[1]].primary ELSE request[2]

C14_StatusOfSamePathAndTechnology ==
    (/\ reply.tool = "get_review_status"
     /\ ~ (reply.request[2] = "" /\ DiskKind(reply.request[1]) = "missing"))
    => LET key == <<reply.request[1], Resolved(reply.request)>>
       IN  IF key \in DOMAIN history
           THEN reply.error = "" /\ reply.value = Some(history[key])
           ELSE /\ reply.error = "No active review found for this project"
                /\ reply.value = None

(***************************************************************************)
(* C15.  A review through the tool that fails because the technology was   *)
(* omitted and none is detected, or because there is no checklist for the  *)
(* technology, returns an error payload and has no effect: no check is     *)
(* executed, the callback is not called, the registry is unchanged, and    *)
(* every get_review_status gives the answer it gave before.                *)
(***************************************************************************)
C15_FailedReviewHasNoEffect ==
    [][(/\ pc = "idle"
        /\ reply'.tool = "review_code"
        /\ reply'.error \in {"Could not detect technology", "FileNotFoundError"})
       => /\ pc' = "idle"
          /\ reply'.value = None
          /\ active_reviews' = active_reviews
          /\ progress_updates' = << >>
          /\ all_results' = << >>
          /\ \A e \in 1..Len(events') :
                 events'[e].ev \notin {"validate", "callback", "record"}
          /\ \A path \in ToolPaths, tech \in ToolTechnologies :
                 get_review_status(active_reviews', path, tech)
                     = get_review_status(active_reviews, path, tech)
      ]_vars

\* no technology was given for a directory without indicator files, when the
\* registry held the result of an earlier review
C15_Witness ==
    /\ reply.tool = "review_code"
    /\ reply.request = <<DocsRoot, "">>
    /\ reply.error = "Could not detect technology"
    /\ ReviewId(HomeRoot, "python") \in DOMAIN active_reviews
    /\ get_review_status(active_reviews, HomeRoot, "").value # None

(***************************************************************************)
(* C16.  get_progress is a pure read: a call leaves every field of the     *)
(* Progress Model as it was, and two calls with no start, update_check,    *)
(* record_* or complete between them return the same total, completed,     *)
(* passed, failed, skipped, percentage, current_check and in_progress.     *)
(***************************************************************************)
SnapshotFields ==
    {"total", "completed", "passed", "failed", "skipped", "percentage",
     "current_check", "in_progress"}

C16_SnapshotIsPureRead ==
    [][reply'.tool = "get_progress" =>
          /\ tracker' = tracker
          /\ DOMAIN reply'.value[1] = SnapshotFields
          /\ reply.tool = "get_progress" =>
                 \A f \in SnapshotFields : reply'.value[1][f] = reply.value[1][f]
      ]_vars

\* a snapshot taken while a check is marked in progress, after a failure
C16_Witness ==
    /\ reply.tool = "get_progress"
    /\ reply.value[1].in_progress
    /\ reply.value[1].current_check # None
    /\ reply.value[1].failed = 1
    /\ tracker.in_progress = 1
    /\ Len(tracker.failures) = 1

(***************************************************************************)
(* C17.  Over any sequence of start and record_* calls: after each call    *)
(* the snapshot has completed = passed + failed + skipped; a record_* call *)
(* raises its own counter and completed by exactly one, leaves the other   *)
(* two counters and the total as they were and the in-progress mark        *)
(* cleared; record_fail appends exactly its failure record at the end of   *)
(* the failures, record_pass and record_skip leave the failures alone.     *)
(***************************************************************************)
\* the counters a record_* call must not touch
Kept(own) ==
    \A f \in {"passed", "failed", "skipped"} \ {own} :
        get_progress(tracker)'[f] = get_progress(tracker)[f]

RaisedByOne(own) ==
    /\ get_progress(tracker)'[own] = get_progress(tracker)[own] + 1
    /\ get_progress(tracker)'.completed = get_progress(tracker).completed + 1
    /\ Kept(own)
    /\ get_progress(tracker)'.total = get_progress(tracker).total
    /\ ~ get_progress(tracker)'.in_progress

C17_RecordCounts ==
    [][/\ reply'.tool \in {"start", "record_pass", "record_fail", "record_skip"}
          => Counted(get_progress(tracker)')
       /\ reply'.tool = "record_pass"
          => RaisedByOne("passed") /\ tracker'.failures = tracker.failures
       /\ reply'.tool = "record_fail"
          => /\ RaisedByOne("failed")
             /\ tracker'.failures = Append(tracker.failures, reply'.request[1])
       /\ reply'.tool = "record_skip"
          => RaisedByOne("skipped") /\ tracker'.failures = tracker.failures
      ]_vars

\* a skip recorded for a check that was marked in progress, after a pass and
\* a failure
C17_Witness ==
    /\ reply.tool = "record_skip"
    /\ tracker.current_check # None
    /\ tracker.in_progress = 0
    /\ tracker.passed = 1
    /\ tracker.failed = 1
    /\ tracker.skipped = 1
    /\ Len(tracker.failures) = 1
    /\ get_progress(tracker).completed = 3

(***************************************************************************)
(* C18.  Detection on a directory that contains only a go.mod file returns *)
(* primary = "go", a confidence greater than 0 and at most 1 (100          *)
(* hundredths), and no framework.                                          *)
(***************************************************************************)
OnlyGoMod == tree # << >> /\ \A k \in 1..Len(tree) : tree[k].path = <<"go.mod">>

C18_OnlyGoModIsGo ==
    (reply.tool = "detect_technology" /\ OnlyGoMod) =>
        LET detection == reply.value[1]
        IN  /\ detection.primary = "go"
            /\ detection.confidence > 0
            /\ detection.confidence <= 100
            /\ detection.frameworks = {}

C18_Witness ==
    /\ reply.tool = "detect_technology"
    /\ OnlyGoMod
    /\ reply.value[1] = [primary |-> "go", frameworks |-> {}, confidence |-> 40]

(***************************************************************************)
(* C19.  The Progress Model is reset at the start of each review, also of  *)
(* a later review on the same engine: from start() until complete() every  *)
(* summary has status "in_progress" and no duration, and the snapshot      *)
(* right after start() names no current check of an earlier review.        *)
(***************************************************************************)
\* review_code is between progress_tracker.start and progress_tracker.complete
Reviewing == pc # "idle"
JustStarted ==
    pc = "loop" /\ events = << Event("load_checklist", "", ""),
                               Event("start", "", "") >>

C19_ResetAtEachStart ==
    /\ Reviewing => /\ get_summary(tracker).status = "in_progress"
                    /\ get_summary(tracker).duration_seconds = None
    /\ JustStarted => get_progress(tracker).current_check = None

====
